---- MODULE Spec2Model ----
(***************************************************************************)
(* WedofClient (src/wedof_client.py): the rate-limited fetcher             *)
(* (_wait_for_rate_limit, _make_request), the pagination loop              *)
(* (get_paginated_data), the eleven accessors (get_users .. get_payments)  *)
(* and the aggregate driver (get_all_data), as one state machine driven by *)
(* a single caller and a nondeterministic remote API; further on, a second *)
(* caller on the same client, and the cycle of main.py that hands the      *)
(* aggregate to GoogleSheetsClient.sync_wedof_data                         *)
(* (src/google_sheets_client.py).                                          *)
(*                                                                         *)
(* Time is counted in tenths of a second.                                  *)
(***************************************************************************)
EXTENDS Integers, Sequences, FiniteSets, TLC

VARIABLES
    pc,                 \* position of the caller's thread of control
    mode,               \* which public method the caller is in: "none", "all", "single"
    calls,              \* number of public calls made on this client so far
    idx,                \* get_all_data: index of the current (name, method) pair
    result,             \* get_all_data: its all_data dict, name -> collection
    endpoint,           \* get_paginated_data: its endpoint argument (a path)
    params,             \* get_paginated_data: its params dict
    page,               \* get_paginated_data: its page counter
    all_data,           \* get_paginated_data: its all_data list
    exception,          \* the exception propagating out of get_paginated_data, or "none"
    sleep_time,         \* _wait_for_rate_limit: the sleep it decided on
    last_request_time,  \* the client's last_request_time field
    now,                \* the clock read by time.time()
    requests,           \* history: the requests issued in the current public call
    replies,            \* history: how each of those requests ended
    served,             \* history: the JSON values answered in the current drain
    drained,            \* history: path -> how its drain ended in the current public call
    prev_request_time,  \* history: last_request_time before the latest request
    stamps,             \* history: requests issued on this client, counted up to 2
    given,              \* history: the params argument as the caller passed it
    caller_params,      \* the caller's own params object, as it is now
    aliased,            \* get_paginated_data: its params is the caller's object
    last_response,      \* history: status, quota header and body of the response just taken
    warned,             \* history: the response just taken logged the quota warning
    pc2,                \* a second caller's position in _make_request
    sleep_time2,        \* the second caller's sleep_time
    seen,               \* history: last_request_time as the caller's rate check read it
    seen2,              \* history: last_request_time as the second caller's check read it
    stale,              \* history: the latest stamp followed a check made before the stamp before it
    sheets,             \* the spreadsheet: sheet title -> its rows
    sheets_before,      \* history: the spreadsheet when sync_wedof_data was entered
    sheet_ops,          \* history: the calls made on the spreadsheet in the current sync
    sync_idx            \* sync_wedof_data: index of the current item of wedof_data

callerVars == << given, caller_params, aliased >>
httpVars   == << last_response, warned >>
raceVars   == << pc2, sleep_time2, seen, seen2, stale >>
sheetVars  == << sheets, sheets_before, sheet_ops, sync_idx >>

vars == << pc, mode, calls, idx, result, endpoint, params, page, all_data, exception,
           sleep_time, last_request_time, now, requests, replies, served, drained,
           prev_request_time, stamps, callerVars, httpVars, raceVars, sheetVars >>

----------------------------------------------------------------------------
(* Bounds of the model *)

\* accessor calls made on one client
MaxCalls == 2
\* get_all_data calls made on one client
MaxCycles == 1
\* a response that makes the loop go on is served only on pages below MaxPage
MaxPage == 3
\* responses other than the ordinary short page served in one get_all_data
MaxEvents == 2
\* the clock's value when the client is constructed (time.time() is far from 0)
StartTime == 10
\* the clock does not pass MaxNow by itself (only a sleep takes it further)
MaxNow == 24

----------------------------------------------------------------------------
(* Program constants *)

\* params['limit'] = 100
Limit == 100
\* self.min_request_interval = 0.6 (seconds), in tenths of a second
MinRequestInterval == 6

\* the (name, method) pairs of get_all_data, in their order
endpoints ==
    << [name |-> "users",                 method |-> "get_users"],
       [name |-> "trainings",             method |-> "get_trainings"],
       [name |-> "sessions",              method |-> "get_sessions"],
       [name |-> "attendees",             method |-> "get_attendees"],
       [name |-> "registration_folders",  method |-> "get_registration_folders"],
       [name |-> "certification_folders", method |-> "get_certification_folders"],
       [name |-> "organisms",             method |-> "get_organisms"],
       [name |-> "activities",            method |-> "get_activities"],
       [name |-> "evaluations",           method |-> "get_evaluations"],
       [name |-> "invoices",              method |-> "get_invoices"],
       [name |-> "payments",              method |-> "get_payments"] >>

\* the accessors with the name of the key for the path of get_registration_folders
AccessorPathSnake ==
    [ get_users                 |-> "/api/users",
      get_trainings             |-> "/api/trainings",
      get_sessions              |-> "/api/sessions",
      get_attendees             |-> "/api/attendees",
      get_registration_folders  |-> "/api/registration_folders",
      get_certification_folders |-> "/api/certificationFolders",
      get_organisms             |-> "/api/organisms",
      get_activities            |-> "/api/activities",
      get_evaluations           |-> "/api/evaluations",
      get_invoices              |-> "/api/invoices",
      get_payments              |-> "/api/payments" ]

\* the path each accessor hands to get_paginated_data
AccessorPath ==
    [ get_users                 |-> "/api/users",
      get_trainings             |-> "/api/trainings",
      get_sessions              |-> "/api/sessions",
      get_attendees             |-> "/api/attendees",
      get_registration_folders  |-> "/api/registrationFolders",
      get_certification_folders |-> "/api/certificationFolders",
      get_organisms             |-> "/api/organisms",
      get_activities            |-> "/api/activities",
      get_evaluations           |-> "/api/evaluations",
      get_invoices              |-> "/api/invoices",
      get_payments              |-> "/api/payments" ]

Accessors == DOMAIN AccessorPath

----------------------------------------------------------------------------
(* JSON values, as response.json() returns them: a tag t and a value v *)

List(s) == [t |-> "list", v |-> s]
Dict(f) == [t |-> "dict", v |-> f]
Num(n)  == [t |-> "num",  v |-> n]
Null    == [t |-> "null", v |-> 0]

NoKeys == [k \in {} |-> Null]

\* position of a path in the endpoint table (0 when it is not in it)
PathNo(path) ==
    IF \E i \in DOMAIN endpoints : AccessorPath[endpoints[i].method] = path
    THEN CHOOSE i \in DOMAIN endpoints : AccessorPath[endpoints[i].method] = path
    ELSE 0

\* one record of the remote API: an object with an id that tells its endpoint,
\* page and position apart
Record(id) == Dict("id" :> Num(id))

Item(path, pg, i) == Record(PathNo(path) * 10000 + pg * 1000 + i)

\* the n records of page pg of an endpoint, in the API's order
ListPage(path, pg, n) ==
    LET first == PathNo(path) * 10000 + pg * 1000 IN
    [i \in 1..n |-> Record(first + i)]

\* an object with n fields, none of them named data
Fields(n) == [k \in {"f" \o ToString(i) : i \in 1..n} |-> Num(0)]

----------------------------------------------------------------------------
(* Python's view of a JSON value *)

\* `'data' in response` raises TypeError on a number, a boolean and null
SupportsIn(x) == x.t \in {"list", "dict"}

\* `not data`
Falsy(x) ==
    \/ x.t = "null"
    \/ x.t = "num" /\ x.v = 0
    \/ x.t = "list" /\ Len(x.v) = 0
    \/ x.t = "dict" /\ DOMAIN x.v = {}

\* len(data) raises TypeError on a number
HasLen(x) == x.t \in {"list", "dict"}

\* len(data): the items of a list, the keys of a dict
PyLen(x) == IF x.t = "list" THEN Len(x.v) ELSE Cardinality(DOMAIN x.v)

----------------------------------------------------------------------------
(* get_paginated_data: one pass of its loop body on a response *)

\* lines 105-110: where the page's data is in the response
Normalize(response) ==
    IF response.t = "list" THEN response
    ELSE IF "data" \in DOMAIN response.v THEN response.v["data"]
    ELSE response

\* line 115 with append for extend: the page itself becomes one item
PageItemsAppended(data) == << data >>

\* line 115: what all_data.extend receives
PageItems(data) == IF data.t = "list" THEN data.v ELSE << data >>

\* the loop body with `<=` for `<` in the test of line 118
LoopBodyStopsOnFull(all, limit, response) ==
    LET data == Normalize(response) IN
    IF ~SupportsIn(response) THEN [next |-> "raise", all_data |-> all]
    ELSE IF Falsy(data) THEN [next |-> "break", all_data |-> all]
    ELSE IF ~HasLen(data) THEN [next |-> "raise", all_data |-> all \o PageItems(data)]
    ELSE IF PyLen(data) <= limit
    THEN [next |-> "break", all_data |-> all \o PageItems(data)]
    ELSE [next |-> "continue", all_data |-> all \o PageItems(data)]

\* the loop body with `continue` for `break` at line 113
LoopBodySkipsEmpty(all, limit, response) ==
    LET data == Normalize(response) IN
    IF ~SupportsIn(response) THEN [next |-> "raise", all_data |-> all]
    ELSE IF Falsy(data) THEN [next |-> "continue", all_data |-> all]
    ELSE IF ~HasLen(data) THEN [next |-> "raise", all_data |-> all \o PageItems(data)]
    ELSE IF PyLen(data) < limit
    THEN [next |-> "break", all_data |-> all \o PageItems(data)]
    ELSE [next |-> "continue", all_data |-> all \o PageItems(data)]

\* the loop body without the test of lines 118-119
LoopBodyNoShortBreak(all, limit, response) ==
    LET data == Normalize(response) IN
    IF ~SupportsIn(response) THEN [next |-> "raise", all_data |-> all]
    ELSE IF Falsy(data) THEN [next |-> "break", all_data |-> all]
    ELSE IF ~HasLen(data) THEN [next |-> "raise", all_data |-> all \o PageItems(data)]
    ELSE [next |-> "continue", all_data |-> all \o PageItems(data)]

\* lines 105-121: the list after the pass and how the pass ends
LoopBody(all, limit, response) ==
    IF ~SupportsIn(response)
    THEN [next |-> "raise", all_data |-> all]
    ELSE LET data == Normalize(response) IN
         IF Falsy(data)
         THEN [next |-> "break", all_data |-> all]
         ELSE LET extended == all \o PageItems(data) IN
              IF ~HasLen(data)
              THEN [next |-> "raise", all_data |-> extended]
              ELSE IF PyLen(data) < limit
              THEN [next |-> "break", all_data |-> extended]
              ELSE [next |-> "continue", all_data |-> extended]

----------------------------------------------------------------------------
(* The remote API: what a request for a page of an endpoint may be answered *)

\* an ordinary last page, an empty page and a full page
PlainMenu(path, pg) ==
    { [kind |-> "short", body |-> List(ListPage(path, pg, 1))],
      [kind |-> "empty", body |-> List(<< >>)],
      [kind |-> "full",  body |-> List(ListPage(path, pg, Limit))] }

\* every shape of body the loop body tells apart
RichMenu(path, pg) ==
    PlainMenu(path, pg) \cup
    { [kind |-> "short37",    body |-> List(ListPage(path, pg, 37))],
      [kind |-> "short99",    body |-> List(ListPage(path, pg, Limit - 1))],
      [kind |-> "over",       body |-> List(ListPage(path, pg, Limit + 1))],
      [kind |-> "data_full",  body |-> Dict("data" :> List(ListPage(path, pg, Limit)))],
      [kind |-> "data_short", body |-> Dict(("data" :> List(ListPage(path, pg, 2)))
                                            @@ ("total" :> Num(2)))],
      [kind |-> "data_empty", body |-> Dict("data" :> List(<< >>))],
      [kind |-> "data_null",  body |-> Dict("data" :> Null)],
      [kind |-> "data_obj",   body |-> Dict("data" :> Item(path, pg, 1))],
      [kind |-> "data_num",   body |-> Dict("data" :> Num(7))],
      [kind |-> "obj",        body |-> Item(path, pg, 1)],
      [kind |-> "obj_empty",  body |-> Dict(NoKeys)],
      [kind |-> "obj_wide",   body |-> Dict(Fields(Limit))],
      [kind |-> "num",        body |-> Num(5)],
      [kind |-> "null",       body |-> Null] }

\* how session.request, raise_for_status and response.json() fail
Errors == { "HTTPError", "ConnectionError", "JSONDecodeError" }

\* a response that makes the loop go on is served only below MaxPage
Admissible(r) ==
    page < MaxPage \/ LoopBody(all_data, params.limit, r.body).next # "continue"

\* replies of the current public call that are not the ordinary short page
Events == Cardinality({ i \in DOMAIN replies : replies[i] # "short" })

Affordable(kind) == kind = "short" \/ Events < MaxEvents

----------------------------------------------------------------------------
(* Initial state: a client just constructed, no call made *)

NoResult == [n \in {} |-> << >>]
NoDrain  == [p \in {} |-> [raised |-> FALSE, ret |-> << >>]]
NoParams == [page |-> 0, limit |-> 0]

\* a response without the X-RateLimit-Remaining header; no response taken
NoHeader   == [present |-> FALSE, value |-> << >>]
NoResponse == [status |-> 0, quota |-> NoHeader, body |-> Null]

\* a spreadsheet without any sheet
NoSheets == [title \in {} |-> << >>]

InitClient ==
    /\ pc = "idle"
    /\ mode = "none"
    /\ calls = 0
    /\ idx = 0
    /\ result = NoResult
    /\ endpoint = ""
    /\ params = NoParams
    /\ page = 0
    /\ all_data = << >>
    /\ exception = "none"
    /\ sleep_time = 0
    /\ last_request_time = 0
    /\ now = StartTime
    /\ requests = << >>
    /\ replies = << >>
    /\ served = << >>
    /\ drained = NoDrain
    /\ prev_request_time = 0
    /\ stamps = 0
    /\ given = Null
    /\ caller_params = Null
    /\ aliased = FALSE
    /\ last_response = NoResponse
    /\ warned = FALSE
    /\ pc2 = "idle"
    /\ sleep_time2 = 0
    /\ seen = 0
    /\ seen2 = 0
    /\ stale = FALSE
    /\ sheets_before = NoSheets
    /\ sheet_ops = << >>
    /\ sync_idx = 0

\* the client just constructed and a spreadsheet without any sheet
Init ==
    /\ InitClient
    /\ sheets = NoSheets

----------------------------------------------------------------------------
(* get_paginated_data *)

\* lines 93-99: the locals on entry and the first pass's pagination keys
StartDrain(path) ==
    /\ endpoint' = path
    /\ all_data' = << >>
    /\ page' = 1
    /\ params' = [page |-> 1, limit |-> Limit]
    /\ served' = << >>
    /\ pc' = "wait"

\* the current name of get_all_data's loop
Name == endpoints[idx].name

\* an accessor called by the caller itself
CallAccessor(m) ==
    /\ pc = "idle"
    /\ calls < MaxCalls
    /\ calls' = calls + 1
    /\ mode' = "single"
    /\ StartDrain(AccessorPath[m])
    /\ requests' = << >>
    /\ replies' = << >>
    /\ drained' = NoDrain
    /\ UNCHANGED << idx, result, exception, sleep_time, last_request_time, now,
                    prev_request_time, stamps >>
    /\ UNCHANGED << callerVars, httpVars, raceVars, sheetVars >>

----------------------------------------------------------------------------
(* _wait_for_rate_limit and _make_request *)

\* lines 38-42 with the time elapsed taken for the time left
SleepTimeElapsed(current_time, last) ==
    LET time_since_last == current_time - last IN
    IF time_since_last < MinRequestInterval THEN time_since_last ELSE 0

\* lines 38-42: the sleep decided from the clock and last_request_time
SleepTime(current_time, last) ==
    LET time_since_last == current_time - last IN
    IF time_since_last < MinRequestInterval
    THEN MinRequestInterval - time_since_last
    ELSE 0

RateCheck ==
    /\ pc = "wait"
    /\ sleep_time' = SleepTime(now, last_request_time)
    /\ pc' = "sleep"
    /\ UNCHANGED << mode, calls, idx, result, endpoint, params, page, all_data,
                    exception, last_request_time, now, requests, replies, served,
                    drained, prev_request_time, stamps >>
    /\ seen' = last_request_time
    /\ UNCHANGED << callerVars, httpVars, sheetVars, pc2, sleep_time2, seen2, stale >>

\* lines 43-45 and 61-64 without the sleep of line 43
SleepStampNoSleep ==
    /\ pc = "sleep"
    /\ now' = now
    /\ last_request_time' = now'
    /\ prev_request_time' = last_request_time
    /\ stamps' = IF stamps < 2 THEN stamps + 1 ELSE 2
    /\ sleep_time' = 0
    /\ requests' = Append(requests, [method |-> "GET", endpoint |-> endpoint,
                                      params |-> params])
    /\ pc' = "request"
    /\ UNCHANGED << mode, calls, idx, result, endpoint, params, page, all_data,
                    exception, replies, served, drained >>
    /\ stale' = (seen # last_request_time)
    /\ last_response' = NoResponse
    /\ warned' = FALSE
    /\ UNCHANGED << callerVars, sheetVars, pc2, sleep_time2, seen, seen2 >>

\* lines 43-45 and 61-64: the sleep, the stamp and the request leaving
SleepStamp ==
    /\ pc = "sleep"
    /\ now' = now + sleep_time
    /\ last_request_time' = now'
    /\ prev_request_time' = last_request_time
    /\ stamps' = IF stamps < 2 THEN stamps + 1 ELSE 2
    /\ sleep_time' = 0
    /\ requests' = Append(requests, [method |-> "GET", endpoint |-> endpoint,
                                      params |-> params])
    /\ pc' = "request"
    /\ UNCHANGED << mode, calls, idx, result, endpoint, params, page, all_data,
                    exception, replies, served, drained >>
    /\ stale' = (seen # last_request_time)
    /\ last_response' = NoResponse
    /\ warned' = FALSE
    /\ UNCHANGED << callerVars, sheetVars, pc2, sleep_time2, seen, seen2 >>

\* time passing while the caller is anywhere
Tick ==
    /\ now < MaxNow
    /\ now' = now + 1
    /\ UNCHANGED << pc, mode, calls, idx, result, endpoint, params, page, all_data,
                    exception, sleep_time, last_request_time, requests, replies,
                    served, drained, prev_request_time, stamps >>
    /\ UNCHANGED << callerVars, httpVars, raceVars, sheetVars >>

\* a handler inside get_paginated_data that returns the pages it has
RaiseSwallowed(err) ==
    /\ pc' = "returned"
    /\ all_data' = all_data
    /\ drained' = (endpoint :> [raised |-> FALSE, ret |-> all_data]) @@ drained
    /\ UNCHANGED << page, params, exception, caller_params >>

\* the exception leaves get_paginated_data: it has no handler of its own
Raise(err) ==
    /\ pc' = "raised"
    /\ exception' = err
    /\ all_data' = << >>
    /\ drained' = (endpoint :> [raised |-> TRUE, ret |-> << >>]) @@ drained
    /\ UNCHANGED << page, params, caller_params >>

\* lines 75-80 with the request tried again instead of `raise`
RequestRetried(err) ==
    /\ pc = "request"
    /\ replies' = Append(replies, err)
    /\ pc' = "wait"
    /\ UNCHANGED << mode, calls, idx, result, endpoint, params, page, all_data,
                    exception, sleep_time, last_request_time, now, requests, served,
                    drained, prev_request_time, stamps >>
    /\ UNCHANGED << callerVars, httpVars, raceVars, sheetVars >>

\* lines 75-80 and the way out of _make_request: err is logged and raised again
\* (an error that is neither of the two caught kinds leaves the same way)
Failed(err) ==
    /\ pc = "request"
    /\ replies' = Append(replies, err)
    /\ Raise(err)
    /\ UNCHANGED << mode, calls, idx, result, endpoint, sleep_time,
                    last_request_time, now, requests, served,
                    prev_request_time, stamps >>
    /\ UNCHANGED << given, aliased, raceVars, sheetVars >>

\* lines 64-80: the request fails; the error is logged and raised again
RequestFails(err) ==
    /\ Failed(err)
    /\ UNCHANGED httpVars

\* lines 73 and 102-124: response.json() returned, and the loop body on its value
Returned(r) ==
    /\ pc = "request"
    /\ replies' = Append(replies, r.kind)
    /\ served' = Append(served, r.body)
    /\ LET pass == LoopBody(all_data, params.limit, r.body) IN
       CASE pass.next = "continue" ->
              /\ all_data' = pass.all_data
              /\ page' = page + 1
              /\ params' = [params EXCEPT !.page = page + 1, !.limit = Limit]
              /\ caller_params' = IF aliased THEN Dict(params') ELSE caller_params
              /\ pc' = "wait"
              /\ UNCHANGED << exception, drained >>
         [] pass.next = "break" ->
              /\ all_data' = pass.all_data
              /\ pc' = "returned"
              /\ drained' = (endpoint :> [raised |-> FALSE, ret |-> pass.all_data])
                               @@ drained
              /\ UNCHANGED << page, params, exception, caller_params >>
         [] pass.next = "raise" ->
              Raise("TypeError")
    /\ UNCHANGED << mode, calls, idx, result, endpoint, sleep_time,
                    last_request_time, now, requests, prev_request_time, stamps >>
    /\ UNCHANGED << given, aliased, raceVars, sheetVars >>

\* a response with status 200, a JSON body and no quota header
Respond(r) ==
    /\ Returned(r)
    /\ last_response' = [status |-> 200, quota |-> NoHeader, body |-> r.body]
    /\ UNCHANGED warned

----------------------------------------------------------------------------
(* get_all_data *)

CallGetAllData ==
    /\ pc = "idle"
    /\ calls < MaxCycles
    /\ calls' = calls + 1
    /\ mode' = "all"
    /\ result' = NoResult
    /\ idx' = 0
    /\ pc' = "loop"
    /\ requests' = << >>
    /\ replies' = << >>
    /\ drained' = NoDrain
    /\ UNCHANGED << endpoint, params, page, all_data, exception, sleep_time,
                    last_request_time, now, served, prev_request_time, stamps >>
    /\ UNCHANGED << callerVars, httpVars, raceVars, sheetVars >>

\* line 196 and 199: the next (name, method) pair, and method() entered
ForNext ==
    /\ pc = "loop"
    /\ idx < Len(endpoints)
    /\ idx' = idx + 1
    /\ StartDrain(AccessorPath[endpoints[idx + 1].method])
    /\ UNCHANGED << mode, calls, result, exception, sleep_time, last_request_time,
                    now, requests, replies, drained, prev_request_time, stamps >>
    /\ UNCHANGED << callerVars, httpVars, raceVars, sheetVars >>

\* line 199: the dict after all_data[name] = value
Stored(dict, name, value) == (name :> value) @@ dict

\* line 203: the dict after all_data[name] = []
CaughtSkips(dict, name) == dict
CaughtClearsAll(dict, name) == [n \in DOMAIN dict \cup {name} |-> << >>]
Caught(dict, name) == (name :> << >>) @@ dict

\* line 199: all_data[name] = method()
Store ==
    /\ pc = "returned"
    /\ mode = "all"
    /\ result' = Stored(result, Name, all_data)
    /\ all_data' = << >>
    /\ pc' = "loop"
    /\ UNCHANGED << mode, calls, idx, endpoint, params, page, exception, sleep_time,
                    last_request_time, now, requests, replies, served, drained,
                    prev_request_time, stamps >>
    /\ UNCHANGED << callerVars, httpVars, raceVars, sheetVars >>

\* lines 201-203: except Exception: all_data[name] = []
Except ==
    /\ pc = "raised"
    /\ mode = "all"
    /\ result' = Caught(result, Name)
    /\ exception' = "none"
    /\ pc' = "loop"
    /\ UNCHANGED << mode, calls, idx, endpoint, params, page, all_data, sleep_time,
                    last_request_time, now, requests, replies, served, drained,
                    prev_request_time, stamps >>
    /\ UNCHANGED << callerVars, httpVars, raceVars, sheetVars >>

\* lines 205-206: the loop is over, return all_data
ReturnAll ==
    /\ pc = "loop"
    /\ idx = Len(endpoints)
    /\ pc' = "done"
    /\ UNCHANGED << mode, calls, idx, result, endpoint, params, page, all_data,
                    exception, sleep_time, last_request_time, now, requests, replies,
                    served, drained, prev_request_time, stamps >>
    /\ UNCHANGED << callerVars, httpVars, raceVars, sheetVars >>

----------------------------------------------------------------------------
(* The caller *)

\* the caller has the public call's result or exception and drops it
Finish ==
    /\ \/ pc = "done"
       \/ mode = "single" /\ pc \in {"returned", "raised"}
    /\ pc' = "idle"
    /\ mode' = "none"
    /\ idx' = 0
    /\ result' = NoResult
    /\ endpoint' = ""
    /\ params' = NoParams
    /\ page' = 0
    /\ all_data' = << >>
    /\ exception' = "none"
    /\ requests' = << >>
    /\ replies' = << >>
    /\ served' = << >>
    /\ drained' = NoDrain
    /\ UNCHANGED << calls, sleep_time, last_request_time, now, prev_request_time,
                    stamps >>
    /\ given' = Null
    /\ caller_params' = Null
    /\ aliased' = FALSE
    /\ last_response' = NoResponse
    /\ warned' = FALSE
    /\ sheet_ops' = << >>
    /\ sync_idx' = 0
    /\ UNCHANGED << raceVars, sheets, sheets_before >>

----------------------------------------------------------------------------
(* Specifications *)

\* get_all_data against plain pages and HTTP errors, a budget of events
Next ==
    \/ CallGetAllData
    \/ ForNext
    \/ RateCheck
    \/ SleepStamp
    \/ pc = "request" /\ \E r \in PlainMenu(endpoint, page) :
          Affordable(r.kind) /\ Admissible(r) /\ Respond(r)
    \/ Affordable("HTTPError") /\ RequestFails("HTTPError")
    \/ Store
    \/ Except
    \/ ReturnAll
    \/ Finish

Spec == Init /\ [][Next]_vars

\* the accessors alone, against every shape of response
NextDrain ==
    \/ \E m \in Accessors : CallAccessor(m)
    \/ RateCheck
    \/ SleepStamp
    \/ pc = "request" /\ \E r \in RichMenu(endpoint, page) : Admissible(r) /\ Respond(r)
    \/ \E err \in Errors : RequestFails(err)
    \/ Finish

SpecDrain == Init /\ [][NextDrain]_vars

\* get_all_data alone, each endpoint answering its first page or failing
NextFaults ==
    \/ CallGetAllData
    \/ ForNext
    \/ RateCheck
    \/ SleepStamp
    \/ pc = "request" /\ Respond([kind |-> "short", body |-> List(ListPage(endpoint, page, 1))])
    \/ RequestFails("HTTPError")
    \/ Store
    \/ Except
    \/ ReturnAll
    \/ Finish

SpecFaults == Init /\ [][NextFaults]_vars

\* the accessors with the clock running between the caller's steps
NextTimed ==
    \/ \E m \in Accessors : CallAccessor(m)
    \/ RateCheck
    \/ SleepStamp
    \/ Tick
    \/ pc = "request" /\ \E r \in PlainMenu(endpoint, page) : Admissible(r) /\ Respond(r)
    \/ \E err \in Errors : RequestFails(err)
    \/ Finish

SpecTimed == Init /\ [][NextTimed]_vars

----------------------------------------------------------------------------
(* What the claims are stated with *)

\* the endpoint table of the specification: logical name -> path
EndpointTable ==
    << [name |-> "users",                 path |-> "/api/users"],
       [name |-> "trainings",             path |-> "/api/trainings"],
       [name |-> "sessions",              path |-> "/api/sessions"],
       [name |-> "attendees",             path |-> "/api/attendees"],
       [name |-> "registration_folders",  path |-> "/api/registrationFolders"],
       [name |-> "certification_folders", path |-> "/api/certificationFolders"],
       [name |-> "organisms",             path |-> "/api/organisms"],
       [name |-> "activities",            path |-> "/api/activities"],
       [name |-> "evaluations",           path |-> "/api/evaluations"],
       [name |-> "invoices",              path |-> "/api/invoices"],
       [name |-> "payments",              path |-> "/api/payments"] >>

EndpointNames == { EndpointTable[i].name : i \in DOMAIN EndpointTable }

\* the paths whose drain failed, and those whose drain returned
FailedPaths == { p \in DOMAIN drained : drained[p].raised }
ReturnedPaths == { p \in DOMAIN drained : ~drained[p].raised }

----------------------------------------------------------------------------
(* C1: whatever endpoints fail, the mapping get_all_data returns has exactly
   the eleven endpoint names as its keys, and get_all_data does not fail:
   every exception that reaches it out of a drain is taken by its handler. *)
C1_AggregateKeySet ==
    /\ pc = "done" => DOMAIN result = EndpointNames
    /\ mode = "all" /\ pc = "raised" => ENABLED Except
    /\ mode = "all" => DOMAIN result \subseteq EndpointNames

\* get_all_data has returned after five endpoints failed and six did not
C1_Witness ==
    /\ pc = "done"
    /\ Cardinality(FailedPaths) = 5
    /\ Cardinality(ReturnedPaths) = 6
    /\ DOMAIN result = EndpointNames

----------------------------------------------------------------------------
(* C2: in the mapping get_all_data builds, an endpoint whose drain failed, at
   whatever page, is mapped to the empty sequence, and every endpoint whose
   drain returned is mapped to exactly the collection that drain returned. *)
C2_FaultIsolation ==
    mode = "all" =>
        \A i \in DOMAIN EndpointTable :
            LET e == EndpointTable[i] IN
            e.name \in DOMAIN result =>
                /\ e.path \in DOMAIN drained
                /\ drained[e.path].raised => result[e.name] = << >>
                /\ ~drained[e.path].raised => result[e.name] = drained[e.path].ret

\* get_all_data has returned; one endpoint failed on its second page, after a
\* full first page, and every other endpoint holds its one record
C2_Witness ==
    /\ pc = "done"
    /\ \E i \in DOMAIN EndpointTable :
          LET e == EndpointTable[i] IN
          /\ drained[e.path].raised
          /\ \E k \in DOMAIN requests :
                /\ requests[k].endpoint = e.path
                /\ requests[k].params.page = 2
                /\ replies[k] = "HTTPError"
          /\ result[e.name] = << >>
          /\ \A j \in DOMAIN EndpointTable \ {i} :
                Len(result[EndpointTable[j].name]) = 1

----------------------------------------------------------------------------
(* Pages, as the specification speaks of them: a response that is a sequence
   of records, bare or in the data field of an object *)

IsListPage(body) ==
    \/ body.t = "list"
    \/ body.t = "dict" /\ "data" \in DOMAIN body.v /\ body.v["data"].t = "list"

RecordsOf(body) == IF body.t = "list" THEN body.v ELSE body.v["data"].v

RECURSIVE Concat(_)
\* the records of a sequence of pages, page after page
Concat(pages) ==
    IF pages = << >> THEN << >>
    ELSE RecordsOf(Head(pages)) \o Concat(Tail(pages))

AllListPages(pages) == \A i \in DOMAIN pages : IsListPage(pages[i])

PageSize(i) == Len(RecordsOf(served[i]))

PageSizes == [i \in DOMAIN served |-> PageSize(i)]

\* the caller is inside an accessor or has its result
InAccessor == mode = "single"

----------------------------------------------------------------------------
(* C3: a drain whose responses are pages of records returns the records of
   pages 1..k in the API's order, nothing dropped, duplicated or reordered,
   where k is the first page with fewer than 100 records, and issues exactly
   k requests; no request follows a page with fewer than 100 records. *)
C3_ShortPageEndsDrain ==
    InAccessor /\ AllListPages(served) =>
        /\ \A i \in DOMAIN served :
              PageSize(i) < 100 => i = Len(served) /\ pc = "returned"
        /\ pc = "returned" =>
              /\ PageSize(Len(served)) < 100
              /\ Len(requests) = Len(served)
              /\ all_data = Concat(served)

\* pages of 100, 100 and 37 records: three requests, 237 records
C3_Witness ==
    /\ InAccessor
    /\ pc = "returned"
    /\ AllListPages(served)
    /\ PageSizes = << 100, 100, 37 >>
    /\ Len(requests) = 3
    /\ Len(all_data) = 237

----------------------------------------------------------------------------
(* C4: after a page of exactly 100 records the drain goes on to request the
   next page of the same endpoint; when every page before an empty one was
   exactly full, the drain issued one request per full page and one more, and
   returns the records of the full pages. *)
C4_FullPageAsksForNext ==
    InAccessor /\ AllListPages(served) =>
        /\ \A i \in DOMAIN served :
              PageSize(i) = 100 =>
                  \/ i = Len(served) /\ pc \in {"wait", "sleep"} /\ page = i + 1
                  \/ /\ Len(requests) > i
                     /\ requests[i + 1].endpoint = requests[i].endpoint
                     /\ requests[i + 1].params.page = i + 1
        /\ ( /\ pc = "returned"
             /\ PageSize(Len(served)) = 0
             /\ \A i \in 1..(Len(served) - 1) : PageSize(i) = 100 ) =>
              /\ Len(requests) = Len(served)
              /\ Len(all_data) = 100 * (Len(served) - 1)
              /\ all_data = Concat(SubSeq(served, 1, Len(served) - 1))

\* pages of 100, 100 and 0 records: three requests, 200 records
C4_Witness ==
    /\ InAccessor
    /\ pc = "returned"
    /\ AllListPages(served)
    /\ PageSizes = << 100, 100, 0 >>
    /\ Len(requests) = 3
    /\ Len(all_data) = 200

----------------------------------------------------------------------------
(* C5: an empty page ends the drain: no request follows it and the drain
   returns what it had accumulated before it, which is nothing when the empty
   page is the first. *)
C5_EmptyPageEndsDrain ==
    InAccessor =>
        \A i \in DOMAIN served :
            IsListPage(served[i]) /\ RecordsOf(served[i]) = << >> =>
                /\ i = Len(served)
                /\ pc = "returned"
                /\ Len(requests) = i
                /\ i = 1 => all_data = << >>
                /\ AllListPages(served) =>
                      all_data = Concat(SubSeq(served, 1, i - 1))

\* the first page is empty: one request, no record
C5_Witness ==
    /\ InAccessor
    /\ pc = "returned"
    /\ Len(served) = 1
    /\ IsListPage(served[1]) /\ RecordsOf(served[1]) = << >>
    /\ Len(requests) = 1
    /\ all_data = << >>

----------------------------------------------------------------------------
(* C6: the records a response adds to the list are those of the three-case
   policy: the response itself when it is a sequence; else the value of its
   data field when it has one; else the response as the only record.
   (Stated for the responses on which the policy leaves no doubt: a data
   field that is not a sequence is left out.) *)
ThreeCases(response) ==
    IF response.t = "list" THEN response.v
    ELSE IF response.t = "dict" /\ "data" \in DOMAIN response.v
         THEN response.v["data"].v
         ELSE << response >>

PolicyDecides(response) ==
    ~(response.t = "dict" /\ "data" \in DOMAIN response.v) \/ IsListPage(response)

C6_ThreeCasePolicy ==
    [][ Len(served') = Len(served) + 1 =>
          LET response == served'[Len(served')] IN
          PolicyDecides(response) =>
              /\ pc' # "raised"
              /\ all_data' = all_data \o ThreeCases(response) ]_vars

----------------------------------------------------------------------------
(* C7: two consecutive requests of one client never start less than the
   minimum interval apart, a request starting when _wait_for_rate_limit
   stamps last_request_time and lets it go. *)
C7_RateFloor ==
    stamps = 2 => last_request_time - prev_request_time >= MinRequestInterval

\* the first request of a second accessor call leaves exactly the minimum
\* interval after the last request of the first call, the clock having run
\* in between
C7_Witness ==
    /\ stamps = 2
    /\ calls = 2
    /\ pc = "request"
    /\ Len(requests) = 1
    /\ last_request_time - prev_request_time = MinRequestInterval
    /\ prev_request_time > StartTime

----------------------------------------------------------------------------
(* C8: get_all_data drains the endpoints of the table once each, in the
   table's order and at the table's paths; a request for an endpoint is
   issued only when the drains of all endpoints before it have ended, and
   get_all_data returns only when all eleven have. *)
DrainNo(i) == Cardinality({ j \in 1..i : requests[j].params.page = 1 })

TablePaths(n) == { EndpointTable[i].path : i \in 1..n }

C8_DeclaredOrder ==
    mode = "all" =>
        /\ \A i \in DOMAIN requests :
              /\ DrainNo(i) \in DOMAIN EndpointTable
              /\ requests[i].endpoint = EndpointTable[DrainNo(i)].path
        /\ DOMAIN drained = TablePaths(Cardinality(DOMAIN drained))
        /\ requests # << >> =>
              TablePaths(DrainNo(Len(requests)) - 1) \subseteq DOMAIN drained
        /\ DOMAIN result = { EndpointTable[i].name : i \in 1..Cardinality(DOMAIN result) }
        /\ pc = "done" =>
              /\ DOMAIN drained = TablePaths(Len(EndpointTable))
              /\ DrainNo(Len(requests)) = Len(EndpointTable)

\* get_all_data has returned after thirteen requests: eleven first pages and
\* two further pages
C8_Witness ==
    /\ pc = "done"
    /\ Len(requests) = 13
    /\ DrainNo(Len(requests)) = 11
    /\ requests[13].endpoint = "/api/payments"

----------------------------------------------------------------------------
(* C9: a request that fails, on whatever page, ends the accessor's drain with
   that failure propagating to the caller: no further request is made and no
   collection is returned, the pages already fetched included. *)
C9_FailurePropagates ==
    InAccessor =>
        \A i \in DOMAIN replies :
            replies[i] \in Errors =>
                /\ i = Len(replies)
                /\ Len(requests) = i
                /\ pc = "raised"
                /\ exception = replies[i]
                /\ all_data = << >>
                /\ drained[endpoint].raised

\* the third request of a drain fails after two full pages were fetched
C9_Witness ==
    /\ InAccessor
    /\ pc = "raised"
    /\ Len(replies) = 3
    /\ replies[3] \in Errors
    /\ Len(served) = 2
    /\ PageSizes = << 100, 100 >>
    /\ all_data = << >>

----------------------------------------------------------------------------
(* C10: no request is tried again: in one get_all_data the pages requested of
   an endpoint strictly increase, and after a failed request no request for
   its endpoint follows: the next request is for page 1 of the next endpoint
   of the table. *)
C10_NoRetry ==
    mode = "all" =>
        /\ \A i, j \in DOMAIN requests :
              i < j /\ requests[i].endpoint = requests[j].endpoint =>
                  requests[i].params.page < requests[j].params.page
        /\ \A i \in DOMAIN replies :
              replies[i] \in Errors =>
                  /\ \A j \in DOMAIN requests :
                        j > i => requests[j].endpoint # requests[i].endpoint
                  /\ i + 1 \in DOMAIN requests =>
                        /\ requests[i + 1].params.page = 1
                        /\ \E n \in 1..(Len(EndpointTable) - 1) :
                              /\ requests[i].endpoint = EndpointTable[n].path
                              /\ requests[i + 1].endpoint = EndpointTable[n + 1].path

\* the request for page 2 of /api/users failed and the request after it is
\* for page 1 of /api/trainings
C10_Witness ==
    /\ mode = "all"
    /\ Len(requests) >= 3
    /\ requests[2].endpoint = "/api/users" /\ requests[2].params.page = 2
    /\ replies[2] = "HTTPError"
    /\ requests[3].endpoint = "/api/trainings" /\ requests[3].params.page = 1

----------------------------------------------------------------------------
(* get_paginated_data called with a params argument of the caller *)

\* line 95, `params or {}`: a None or an empty dict gives a new empty dict
BaseParams(p) == IF Falsy(p) THEN NoKeys ELSE p.v

\* lines 98-99 with the caller's page and limit left in place
WithPagingCallerWins(f, pg) ==
    [k \in DOMAIN f \cup {"page", "limit"} |->
        IF k \in DOMAIN f THEN f[k] ELSE IF k = "page" THEN pg ELSE Limit]

\* lines 98-99: params['page'] = page and params['limit'] = 100 set on params
WithPaging(f, pg) ==
    [k \in DOMAIN f \cup {"page", "limit"} |->
        IF k = "page" THEN pg ELSE IF k = "limit" THEN Limit ELSE f[k]]

\* the params arguments a caller passes: none, empty, extra keys, paging keys
CallerParams ==
    { Null,
      Dict(NoKeys),
      Dict([status |-> "active"]),
      Dict([page |-> 7, limit |-> 5]),
      Dict([status |-> "active", page |-> 7]) }

\* the paths get_paginated_data is called with
Paths == { AccessorPath[m] : m \in Accessors }

\* get_paginated_data(path, p) called by the caller itself: lines 93-99 of
\* the first pass; a non-empty p is the very object the loop writes into
CallGetPaginatedData(path, p) ==
    /\ pc = "idle"
    /\ calls < MaxCalls
    /\ calls' = calls + 1
    /\ mode' = "single"
    /\ endpoint' = path
    /\ all_data' = << >>
    /\ page' = 1
    /\ params' = WithPaging(BaseParams(p), 1)
    /\ served' = << >>
    /\ pc' = "wait"
    /\ given' = p
    /\ aliased' = ~Falsy(p)
    /\ caller_params' = IF Falsy(p) THEN p ELSE Dict(params')
    /\ requests' = << >>
    /\ replies' = << >>
    /\ drained' = NoDrain
    /\ UNCHANGED << idx, result, exception, sleep_time, last_request_time, now,
                    prev_request_time, stamps >>
    /\ UNCHANGED << httpVars, raceVars, sheetVars >>

NextParams ==
    \/ \E path \in Paths, p \in CallerParams : CallGetPaginatedData(path, p)
    \/ RateCheck
    \/ SleepStamp
    \/ pc = "request" /\ \E r \in PlainMenu(endpoint, page) : Admissible(r) /\ Respond(r)
    \/ \E err \in Errors : RequestFails(err)
    \/ Finish

SpecParams == Init /\ [][NextParams]_vars

----------------------------------------------------------------------------
(* C11: every request of a drain carries limit = 100 and page = k for the
   k-th request of that drain, k starting at 1 in every drain whatever the
   drains before it on the same client and going up by one per request; the
   two keys replace a page or a limit key of the caller, and every other key
   of the caller is sent with the caller's value on every request. *)
CallerKeys == IF given.t = "dict" THEN DOMAIN given.v ELSE {}

C11_PagingKeys ==
    mode = "single" =>
        \A k \in DOMAIN requests :
            /\ requests[k].params["limit"] = 100
            /\ requests[k].params["page"] = k
            /\ DOMAIN requests[k].params = CallerKeys \cup {"page", "limit"}
            /\ \A key \in CallerKeys \ {"page", "limit"} :
                  requests[k].params[key] = given.v[key]

\* the second drain on the client, called with page = 7 and a status key,
\* has issued its second request
C11_Witness ==
    /\ mode = "single"
    /\ calls = 2
    /\ given = Dict([status |-> "active", page |-> 7])
    /\ Len(requests) = 2
    /\ requests[2].params = [status |-> "active", page |-> 2, limit |-> 100]

----------------------------------------------------------------------------
(* C16: a drain leaves the caller's params mapping as it was: once the drain
   has returned or failed, the mapping the caller passed holds the keys and
   values it held before the call. *)
C16_CallerParamsUnchanged ==
    (mode = "single" /\ pc \in {"returned", "raised"}) => caller_params = given

----------------------------------------------------------------------------
(* C14: a response that is one bare object (not a sequence, no data field)
   is a page of exactly one item: whatever its fields and however many,
   the drain appends that one object and stops without asking for another
   page. *)
BareObject(x) == x.t = "dict" /\ "data" \notin DOMAIN x.v

C14_BareObjectIsOnePage ==
    InAccessor =>
        \A i \in DOMAIN served :
            BareObject(served[i]) =>
                /\ i = Len(served)
                /\ pc = "returned"
                /\ Len(requests) = i
                /\ Len(all_data) >= 1
                /\ all_data[Len(all_data)] = served[i]
                /\ i = 1 => all_data = << served[i] >>

----------------------------------------------------------------------------
(* _make_request on the whole response: status, quota header and body *)

\* response.raise_for_status() raises HTTPError for a 4xx or a 5xx status
RaisesForStatus(status) == 400 <= status /\ status < 600

Digits == { "0", "1", "2", "3", "4", "5", "6", "7", "8", "9" }

DigitValue(c) == CHOOSE n \in 0..9 : ToString(n) = c

\* int(s) of a header value s, a sequence of characters: an optional sign
\* followed by decimal digits; anything else raises ValueError
Unsigned(s) == IF Len(s) > 0 /\ s[1] \in {"+", "-"} THEN Tail(s) ELSE s

IntLiteral(s) ==
    /\ Len(Unsigned(s)) > 0
    /\ \A i \in DOMAIN Unsigned(s) : Unsigned(s)[i] \in Digits

RECURSIVE DigitsValue(_)
DigitsValue(s) ==
    IF Len(s) = 0 THEN 0
    ELSE 10 * DigitsValue(SubSeq(s, 1, Len(s) - 1)) + DigitValue(s[Len(s)])

IntOf(s) == IF s[1] = "-" THEN 0 - DigitsValue(Unsigned(s)) ELSE DigitsValue(Unsigned(s))

\* a body response.json() cannot decode
Invalid == [t |-> "invalid", v |-> 0]

\* lines 64-73 in order: raise_for_status, the quota header, response.json()
MakeRequest(status, quota, body) ==
    IF RaisesForStatus(status)
    THEN [raise |-> "HTTPError", warn |-> FALSE]
    ELSE IF quota.present /\ ~IntLiteral(quota.value)
    THEN [raise |-> "ValueError", warn |-> FALSE]
    ELSE [raise |-> IF body = Invalid THEN "JSONDecodeError" ELSE "none",
          warn  |-> quota.present /\ IntOf(quota.value) < 5]

\* statuses the remote API answers with
StatusMenu == { 200, 204, 300, 404, 500 }

Header(s) == [present |-> TRUE, value |-> s]

\* quota headers: absent, plenty left, few left, none left, not a number, empty
QuotaMenu ==
    { NoHeader,
      Header(<< "1", "0", "0" >>),
      Header(<< "4" >>),
      Header(<< "0" >>),
      Header(<< "m", "a", "n", "y" >>),
      Header(<< >>) }

\* bodies: the plain pages and one that is not JSON
BodyMenu(path, pg) == PlainMenu(path, pg) \cup { [kind |-> "invalid", body |-> Invalid] }

\* session.request returned a response: lines 65-80, then the loop body
HttpResponse(status, quota, r) ==
    LET out == MakeRequest(status, quota, r.body) IN
    /\ pc = "request"
    /\ last_response' = [status |-> status, quota |-> quota, body |-> r.body]
    /\ warned' = out.warn
    /\ IF out.raise = "none" THEN Returned(r) ELSE Failed(out.raise)

NextHttp ==
    \/ \E m \in Accessors : CallAccessor(m)
    \/ RateCheck
    \/ SleepStamp
    \/ pc = "request" /\ \E status \in StatusMenu, quota \in QuotaMenu,
                             r \in BodyMenu(endpoint, page) :
           /\ r.body = Invalid \/ Admissible(r)
           /\ HttpResponse(status, quota, r)
    \/ RequestFails("ConnectionError")
    \/ Finish

SpecHttp == Init /\ [][NextHttp]_vars

----------------------------------------------------------------------------
(* C12: the remaining-quota header is advisory only: for a response with a
   2xx status, what _make_request returns and what the drain does next are
   what they are without the header, whether the header is there or not and
   whatever its value; the header can only make a warning be logged. *)
Taken == last_response.status = 0 /\ last_response'.status # 0

C12_QuotaAdvisory ==
    [][ (Taken /\ last_response'.status \in 200..299) =>
           LET body == last_response'.body
               pass == LoopBody(all_data, params.limit, body)
           IN IF body = Invalid
              THEN pc' = "raised" /\ exception' = "JSONDecodeError" /\ served' = served
              ELSE /\ served' = Append(served, body)
                   /\ pass.next = "continue" => pc' = "wait" /\ all_data' = pass.all_data
                   /\ pass.next = "break" => pc' = "returned" /\ all_data' = pass.all_data
                   /\ pass.next = "raise" => pc' = "raised" /\ exception' = "TypeError"
      ]_vars

----------------------------------------------------------------------------
(* C15: every response whose status is not 2xx makes _make_request fail with
   the HTTP error that carries the status and the body, so no page comes of
   it; _make_request returns a JSON value only for a 2xx response. *)
C15_NonSuccessFails ==
    (last_response.status # 0 /\ last_response.status \notin 200..299) =>
        /\ pc = "raised"
        /\ exception = "HTTPError"
        /\ Len(served) = Len(replies) - 1

----------------------------------------------------------------------------
(* A second caller driving the same client through _make_request, with no
   lock around _wait_for_rate_limit *)

\* lines 38-42, the second caller: the clock and last_request_time read
OtherRateCheck ==
    /\ pc2 = "idle"
    /\ now < MaxNow
    /\ sleep_time2' = SleepTime(now, last_request_time)
    /\ seen2' = last_request_time
    /\ pc2' = "sleep"
    /\ UNCHANGED << pc, mode, calls, idx, result, endpoint, params, page, all_data,
                    exception, sleep_time, last_request_time, now, requests, replies,
                    served, drained, prev_request_time, stamps >>
    /\ UNCHANGED << callerVars, httpVars, sheetVars, seen, stale >>

\* lines 43-45 and 61-64, the second caller: the sleep, the stamp, its request
OtherSleepStamp ==
    /\ pc2 = "sleep"
    /\ now' = now + sleep_time2
    /\ last_request_time' = now'
    /\ prev_request_time' = last_request_time
    /\ stamps' = IF stamps < 2 THEN stamps + 1 ELSE 2
    /\ stale' = (seen2 # last_request_time)
    /\ sleep_time2' = 0
    /\ pc2' = "request"
    /\ UNCHANGED << pc, mode, calls, idx, result, endpoint, params, page, all_data,
                    exception, sleep_time, requests, replies, served, drained >>
    /\ UNCHANGED << callerVars, httpVars, sheetVars, seen, seen2 >>

\* lines 64-80, the second caller: its request returns or fails, to it
OtherReturn ==
    /\ pc2 = "request"
    /\ pc2' = "idle"
    /\ UNCHANGED << pc, mode, calls, idx, result, endpoint, params, page, all_data,
                    exception, sleep_time, last_request_time, now, requests, replies,
                    served, drained, prev_request_time, stamps >>
    /\ UNCHANGED << callerVars, httpVars, sheetVars, sleep_time2, seen, seen2, stale >>

NextRace ==
    \/ \E m \in Accessors : CallAccessor(m)
    \/ RateCheck
    \/ SleepStamp
    \/ pc = "request" /\ \E r \in PlainMenu(endpoint, page) : Admissible(r) /\ Respond(r)
    \/ RequestFails("HTTPError")
    \/ Finish
    \/ OtherRateCheck
    \/ OtherSleepStamp
    \/ OtherReturn

SpecRace == Init /\ [][NextRace]_vars

----------------------------------------------------------------------------
(* C13: last_request_time is not safe for two callers: with two callers on
   one client and no lock, two requests start less than the minimum interval
   apart in some interleaving of their rate checks, and only so: the later of
   two such requests was let go on a check that read last_request_time before
   the earlier one stamped it. *)
TooClose == stamps = 2 /\ last_request_time - prev_request_time < MinRequestInterval

C13_RaceOnly == TooClose => stale

\* both callers checked before either stamped, and both requests left at
\* the same instant
C13_Witness ==
    /\ TooClose
    /\ pc = "request"
    /\ pc2 = "request"
    /\ last_request_time = prev_request_time

----------------------------------------------------------------------------
(* get_all_data where every step that can be taken is taken in the end: the
   caller's code runs on, and every request gets its response or its error *)
Spare(kind) == kind = "short" \/ Events + 1 < MaxEvents

NextLive ==
    \/ CallGetAllData
    \/ ForNext
    \/ RateCheck
    \/ SleepStamp
    \/ pc = "request" /\ \E r \in PlainMenu(endpoint, page) :
          Spare(r.kind) /\ Admissible(r) /\ Respond(r)
    \/ Spare("HTTPError") /\ RequestFails("HTTPError")
    \/ Store
    \/ Except
    \/ ReturnAll
    \/ Finish

SpecLive == Init /\ [][NextLive]_vars /\ WF_vars(NextLive)

----------------------------------------------------------------------------
(* C17: if every request returns in the end and the endpoint serves a page
   of fewer than 100 items at some page number, the drain ends; if so for
   the 11 endpoints, get_all_data ends. The loop has no other way out: page
   k+1 is requested if and only if pages 1..k held at least 100 items each
   and no request failed. Pages are sequences of records here. *)
InDrain == pc \in {"wait", "sleep", "request"}

\* page k+1 is being requested: pages 1..k were served and held 100 or more;
\* the drain is over: its last request failed or its last page held fewer
C17_OnlyExit ==
    /\ InDrain =>
          /\ page = Len(served) + 1
          /\ \A i \in DOMAIN served : PageSize(i) >= Limit
    /\ pc = "returned" /\ mode = "all" =>
          /\ Len(served) = page
          /\ PageSize(page) < Limit
          /\ \A i \in 1..(page - 1) : PageSize(i) >= Limit
    /\ pc = "raised" /\ mode = "all" =>
          /\ replies[Len(replies)] \in Errors
          /\ Len(served) = page - 1
          /\ \A i \in DOMAIN served : PageSize(i) >= Limit

C17_Terminates ==
    /\ []C17_OnlyExit
    /\ InDrain ~> (pc \in {"returned", "raised"})
    /\ (mode = "all") ~> (pc = "done")

\* get_all_data has returned after a drain went on to a second page
C17_Witness ==
    /\ pc = "done"
    /\ Len(requests) = Len(endpoints) + 1
    /\ \E i \in DOMAIN requests : requests[i].params.page = 2

----------------------------------------------------------------------------
(* GoogleSheetsClient: one sync cycle of main.py on the spreadsheet *)

\* line 276, data_type.replace('_', ' ').title(), on the keys of get_all_data
SheetTitle ==
    [ users                 |-> "Users",
      trainings             |-> "Trainings",
      sessions              |-> "Sessions",
      attendees             |-> "Attendees",
      registration_folders  |-> "Registration Folders",
      certification_folders |-> "Certification Folders",
      organisms             |-> "Organisms",
      activities            |-> "Activities",
      evaluations           |-> "Evaluations",
      invoices              |-> "Invoices",
      payments              |-> "Payments" ]

RECURSIVE SeqOf(_)
\* the elements of a finite set of strings, one after the other
SeqOf(S) == IF S = {} THEN << >> ELSE LET x == CHOOSE y \in S : TRUE IN << x >> \o SeqOf(S \ {x})

\* list(df.columns) for records that have the keys of the first one
Columns(data) == SeqOf(DOMAIN data[1].v)

\* lines 174-182: str(value) of a number
Str(value) == ToString(value.v)

\* lines 166-186: the header row, then one row of strings per record
Rows(data) ==
    << Columns(data) >> \o
    [i \in 1..Len(data) |-> [c \in DOMAIN Columns(data) |-> Str(data[i].v[Columns(data)[c]])]]

\* values().update at A1: the rows written lie over the rows that were there
UpdateAt(old, rows) ==
    [i \in 1..(IF Len(old) > Len(rows) THEN Len(old) ELSE Len(rows)) |->
        IF i <= Len(rows) THEN rows[i] ELSE old[i]]

Op(op, title) == [op |-> op, title |-> title]

\* how the calls on the spreadsheet for one sheet end
Outcomes == { "ok", "get_fails", "add_fails", "clear_fails", "update_fails", "format_fails" }

\* write_data_to_sheet with clear_first = False, then format_sheet_headers
WriteDataToSheetNoClear(sh, title, data, outcome) ==
    LET present == title \in DOMAIN sh
        created == IF present THEN sh ELSE (title :> << >>) @@ sh
        added   == IF present THEN << >> ELSE << Op("addSheet", title) >>
        written == [created EXCEPT ![title] = UpdateAt(created[title], Rows(data))]
    IN
    CASE outcome \in {"get_fails", "add_fails", "clear_fails"} ->
            [sheets |-> sh, ops |-> << Op("error", title) >>]
      [] outcome = "update_fails" ->
            [sheets |-> created, ops |-> added \o << Op("error", title) >>]
      [] outcome = "format_fails" ->
            [sheets |-> written,
             ops |-> added \o << Op("update", title), Op("format_error", title) >>]
      [] outcome = "ok" ->
            [sheets |-> written,
             ops |-> added \o << Op("update", title), Op("format", title) >>]

\* lines 278-280 for a non-empty data_list: write_data_to_sheet (create the
\* sheet if it is not there, clear it, write the rows at A1; the first call
\* that fails ends it), then format_sheet_headers, whose failure is logged
WriteDataToSheet(sh, title, data, outcome) ==
    LET present == title \in DOMAIN sh
        created == IF present THEN sh ELSE (title :> << >>) @@ sh
        added   == IF present THEN << >> ELSE << Op("addSheet", title) >>
        cleared == [created EXCEPT ![title] = << >>]
        written == [cleared EXCEPT ![title] = UpdateAt(cleared[title], Rows(data))]
    IN
    CASE outcome \in {"get_fails", "add_fails"} ->
            [sheets |-> sh, ops |-> << Op("error", title) >>]
      [] outcome = "clear_fails" ->
            [sheets |-> created, ops |-> added \o << Op("error", title) >>]
      [] outcome = "update_fails" ->
            [sheets |-> cleared,
             ops |-> added \o << Op("clear", title), Op("error", title) >>]
      [] outcome = "format_fails" ->
            [sheets |-> written,
             ops |-> added \o << Op("clear", title), Op("update", title),
                                 Op("format_error", title) >>]
      [] outcome = "ok" ->
            [sheets |-> written,
             ops |-> added \o << Op("clear", title), Op("update", title),
                                 Op("format", title) >>]

\* calls on the spreadsheet that failed in this sync
SheetFaults ==
    Cardinality({ j \in DOMAIN sheet_ops : sheet_ops[j].op \in {"error", "format_error"} })

\* main.py line 83: sync_wedof_data entered with what get_all_data returned
SyncWedofData ==
    /\ pc = "done"
    /\ mode = "all"
    /\ pc' = "sync"
    /\ sync_idx' = 0
    /\ sheet_ops' = << >>
    /\ sheets_before' = sheets
    /\ UNCHANGED << mode, calls, idx, result, endpoint, params, page, all_data,
                    exception, sleep_time, last_request_time, now, requests, replies,
                    served, drained, prev_request_time, stamps, sheets >>
    /\ UNCHANGED << callerVars, httpVars, raceVars >>

\* lines 274-287: one pass of the loop over wedof_data.items(), in the
\* order get_all_data inserted the keys
SyncNext(outcome) ==
    /\ pc = "sync"
    /\ sync_idx < Len(endpoints)
    /\ LET data_type == endpoints[sync_idx + 1].name
           data_list == result[data_type]
           sheet_name == SheetTitle[data_type]
       IN IF data_list = << >>
          THEN /\ outcome = "ok"
               /\ UNCHANGED << sheets, sheet_ops >>
          ELSE /\ outcome = "add_fails" => sheet_name \notin DOMAIN sheets
               /\ outcome = "ok" \/ Events + SheetFaults + 1 < MaxEvents
               /\ LET done == WriteDataToSheet(sheets, sheet_name, data_list, outcome)
                  IN /\ sheets' = done.sheets
                     /\ sheet_ops' = sheet_ops \o done.ops
    /\ sync_idx' = sync_idx + 1
    /\ UNCHANGED << pc, mode, calls, idx, result, endpoint, params, page, all_data,
                    exception, sleep_time, last_request_time, now, requests, replies,
                    served, drained, prev_request_time, stamps, sheets_before >>
    /\ UNCHANGED << callerVars, httpVars, raceVars >>

\* line 289: the loop is over
SyncReturn ==
    /\ pc = "sync"
    /\ sync_idx = Len(endpoints)
    /\ pc' = "synced"
    /\ UNCHANGED << mode, calls, idx, result, endpoint, params, page, all_data,
                    exception, sleep_time, last_request_time, now, requests, replies,
                    served, drained, prev_request_time, stamps >>
    /\ UNCHANGED << callerVars, httpVars, raceVars, sheetVars >>

\* rows left in a sheet by an earlier cycle
OldRows == << << "id" >>, << "1" >>, << "2" >>, << "3" >> >>

\* the spreadsheet before the cycle: no sheet, every sheet, two of the sheets
InitialSheets ==
    { NoSheets,
      [title \in { SheetTitle[n] : n \in DOMAIN SheetTitle } |-> OldRows],
      [title \in { "Users", "Payments" } |-> OldRows] }

InitSync ==
    /\ InitClient
    /\ sheets \in InitialSheets

\* one cycle of sync_data from any of the spreadsheets
NextSync ==
    \/ calls = 0 /\ CallGetAllData
    \/ ForNext
    \/ RateCheck
    \/ SleepStamp
    \/ pc = "request" /\ \E r \in PlainMenu(endpoint, page) :
          Spare(r.kind) /\ Admissible(r) /\ Respond(r)
    \/ Spare("HTTPError") /\ RequestFails("HTTPError")
    \/ Store
    \/ Except
    \/ ReturnAll
    \/ SyncWedofData
    \/ \E outcome \in Outcomes : SyncNext(outcome)
    \/ SyncReturn

SpecSync == InitSync /\ [][NextSync]_vars

----------------------------------------------------------------------------
(* C18: in a sync cycle a record type whose collection is empty, for want of
   records or because get_all_data stored [] after a failure, has no sheet
   made, cleared or written: its sheet is after the cycle what it was before;
   a sheet of a non-empty collection is cleared before its rows are written. *)
InSync == pc \in {"sync", "synced"}

Untouched(title) ==
    /\ \A j \in DOMAIN sheet_ops : sheet_ops[j].title # title
    /\ title \in DOMAIN sheets <=> title \in DOMAIN sheets_before
    /\ title \in DOMAIN sheets => sheets[title] = sheets_before[title]

ClearedThenWritten(title, data) ==
    \A j \in DOMAIN sheet_ops :
        sheet_ops[j] = Op("update", title) =>
            /\ j > 1
            /\ sheet_ops[j - 1] = Op("clear", title)
            /\ Len(sheets[title]) = Len(data) + 1
            /\ \A i \in DOMAIN data : sheets[title][i + 1] = << ToString(data[i].v["id"].v) >>

C18_EmptyLeavesSheet ==
    InSync =>
        \A n \in DOMAIN result :
            IF result[n] = << >>
            THEN Untouched(SheetTitle[n])
            ELSE ClearedThenWritten(SheetTitle[n], result[n])

\* the cycle is over: /api/trainings failed and its sheet holds the rows of
\* an earlier cycle still, while the Users sheet, which held such rows too,
\* holds the header and the one record fetched
C18_Witness ==
    /\ pc = "synced"
    /\ "/api/trainings" \in DOMAIN drained
    /\ drained["/api/trainings"].raised
    /\ {"Trainings", "Users"} \subseteq DOMAIN sheets_before
    /\ result["trainings"] = << >>
    /\ sheets["Trainings"] = OldRows
    /\ sheets_before["Users"] = OldRows
    /\ Len(sheets["Users"]) = 2

====
